---------------------------- MODULE Spec2Model ----------------------------
(***************************************************************************)
(* Recruiter_AI_Monolithic: the candidate controller (registration, login, *)
(* apply, document upload), the protect middleware and the Application     *)
(* lifecycle methods, as state machines.                                   *)
(*                                                                         *)
(* Each group of handlers has its own specification over its own part of   *)
(* the state; the variables of the other groups stay as Init left them:    *)
(*   SpecLifecycle  Application.updateStatus / scheduleInterview /         *)
(*                  addCommunication / save with its pre('save') hook      *)
(*   SpecLogin      loginCandidate, with the clock and the profile update  *)
(*                  that deactivates an account                            *)
(*   SpecProtect    the protect middleware over the identity collections   *)
(*                  of the master and the tenant databases                 *)
(*   SpecUpload     upload.single and uploadDocument over the media store  *)
(*   SpecApply      applyToJob, one request at a time, over the jobs, the  *)
(*                  candidates and the applications of one tenant          *)
(***************************************************************************)
EXTENDS Integers, Sequences, FiniteSets, TLC

\* JavaScript's undefined, as a field value.
Undefined == "undefined"

(***************************************************************************)
(* Bounds of the model.                                                    *)
(***************************************************************************)
\* Longest timeline an Application is taken to.
MaxTimeline == 5
\* Last instant of the clock.
MaxTime == 5
\* Files uploaded to the media store.
MaxUploads == 4

(***************************************************************************)
(* State.                                                                  *)
(***************************************************************************)
VARIABLES
  app,           \* one persisted Application document
  account,       \* the account sub-record of the registered candidate
  now,           \* the clock read by new Date() and by isLocked
  loginRes,      \* the response of the last loginCandidate request
  identities,    \* the identity documents of all databases, by _id
  req,           \* the request protect handled last, with what it attached
  storage,       \* the public ids of the artifacts in the media store
  documents,     \* candidate.documents: the publicId per document type
  uploads,       \* files uploaded so far (names the next artifact)
  uploadRes,     \* the last uploadDocument response and its req.file
  jobs,          \* the JobDescription documents, by _id
  candidates,    \* the Candidate documents (each known by its email)
  applications,  \* the Application documents, in creation order
  applyRes,      \* the applyToJob request that ended last
  calls          \* the applyToJob requests in flight together

vars == <<app, account, now, loginRes, identities, req,
          storage, documents, uploads, uploadRes,
          jobs, candidates, applications, applyRes, calls>>
lifecycleVars == <<app>>
loginVars == <<account, now, loginRes>>
\* What the handlers of one group leave alone.
protectVars == <<identities, req>>
uploadVars == <<storage, documents, uploads, uploadRes>>
applyVars == <<jobs, candidates, applications, applyRes, calls>>
notLifecycle == <<loginVars, protectVars, uploadVars, applyVars>>
notLogin == <<lifecycleVars, protectVars, uploadVars, applyVars>>
notProtect == <<lifecycleVars, loginVars, uploadVars, applyVars>>
notUpload == <<lifecycleVars, loginVars, protectVars, applyVars>>
notApply == <<lifecycleVars, loginVars, protectVars, uploadVars>>

(***************************************************************************)
(* models/tenant/Application.js                                            *)
(***************************************************************************)
\* status.enum
Statuses ==
  {"submitted", "under_review", "shortlisted", "interview_scheduled",
   "interviewed", "selected", "rejected", "withdrawn", "on_hold"}

\* interviewData.scheduledAt values and communicationData.type values used.
InterviewSlots == {"slotA", "slotB"}
CommunicationTypes == {"email", "phone"}

\* One element of the timeline array. The action string is kept as the tag
\* of the template that produced it; performedBy, performedAt and notes are
\* payload that no decision reads.
TimelineEntry(action, previousStatus, newStatus) ==
  [action |-> action, previousStatus |-> previousStatus, newStatus |-> newStatus]

\* Application.create({... status: 'submitted'}): a new document; its first
\* save runs the hook with isNew true.
NewApplication ==
  [status |-> "submitted", timeline |-> <<>>, interviews |-> <<>>,
   communication |-> <<>>]

\* pre('save'): isModified('status') compares with the value the document was
\* loaded with. previousStatus is read off the Query object that findOne
\* returns (it is not awaited), which has no status property.
PreSave(doc, loaded, isNew) ==
  IF doc.status # loaded.status /\ ~isNew
    THEN [doc EXCEPT !.timeline =
            Append(@, TimelineEntry("Status changed to", Undefined, doc.status))]
    ELSE doc

\* methods.updateStatus, up to its save.
UpdateStatusDoc(doc, newStatus) ==
  LET previousStatus == doc.status
  IN  [doc EXCEPT !.status = newStatus,
                  !.timeline = Append(@, TimelineEntry("Status changed from to",
                                                       previousStatus, newStatus))]

\* scheduleInterview promoting from every status.
ScheduleInterviewDocAlways(doc, interviewData) ==
  [doc EXCEPT !.interviews = Append(@, interviewData),
              !.timeline = Append(@, TimelineEntry("Interview scheduled for",
                                                   Undefined, Undefined)),
              !.status = "interview_scheduled"]

\* methods.scheduleInterview, up to its save.
ScheduleInterviewDoc(doc, interviewData) ==
  LET pushed == [doc EXCEPT !.interviews = Append(@, interviewData),
                            !.timeline = Append(@, TimelineEntry("Interview scheduled for",
                                                                 Undefined, Undefined))]
  IN  IF pushed.status = "submitted" \/ pushed.status = "under_review"
        THEN [pushed EXCEPT !.status = "interview_scheduled"]
        ELSE pushed

\* methods.addCommunication, up to its save.
AddCommunicationDoc(doc, communicationData) ==
  [doc EXCEPT !.communication = Append(@, communicationData),
              !.timeline = Append(@, TimelineEntry("sent", Undefined, Undefined))]

\* Room for the two entries one operation can append.
TimelineRoom == Len(app.timeline) + 2 <= MaxTimeline

updateStatus(newStatus) ==
  /\ TimelineRoom
  /\ app' = PreSave(UpdateStatusDoc(app, newStatus), app, FALSE)
  /\ UNCHANGED notLifecycle

scheduleInterview(interviewData) ==
  /\ TimelineRoom
  /\ app' = PreSave(ScheduleInterviewDoc(app, interviewData), app, FALSE)
  /\ UNCHANGED notLifecycle

addCommunication(communicationData) ==
  /\ TimelineRoom
  /\ app' = PreSave(AddCommunicationDoc(app, communicationData), app, FALSE)
  /\ UNCHANGED notLifecycle

\* A caller that assigns status and saves: the case the hook is written for.
saveStatus(newStatus) ==
  /\ TimelineRoom
  /\ app' = PreSave([app EXCEPT !.status = newStatus], app, FALSE)
  /\ UNCHANGED notLifecycle

(***************************************************************************)
(* Candidate accounts (models/tenant/Candidate.js is not in the sources:   *)
(* its virtual and methods follow section 4.4 of the specification).       *)
(***************************************************************************)
\* Lock threshold and lock duration (in clock instants) of the lock policy.
MaxAttempts == 5
LockDuration == 2

\* An unset Date field (lockUntil, lastLogin); the clock starts after it.
NoDate == 0

\* The registered candidate's email and password.
CandidateEmail == "a@x.com"
CandidatePassword == "right"

\* req.body.email and req.body.password of a login request.
LoginEmails == {CandidateEmail, "nobody@x.com", Undefined}
LoginPasswords == {CandidatePassword, "wrong", Undefined}

\* virtual isLocked: lockUntil lies in the future.
IsLocked(acc, t) == acc.lockUntil > t

\* methods.matchPassword
MatchPassword(acc, password) == password = acc.password

\* methods.incLoginAttempts: one more failed attempt; the account is locked
\* when the threshold is reached.
IncLoginAttempts(acc, t) ==
  [acc EXCEPT !.loginAttempts = @ + 1,
              !.lockUntil = IF acc.loginAttempts + 1 >= MaxAttempts /\ ~IsLocked(acc, t)
                              THEN t + LockDuration ELSE @]

\* methods.resetLoginAttempts
ResetLoginAttempts(acc) == [acc EXCEPT !.loginAttempts = 0]

\* Candidate.create({... account: {password, isActive: true, ...}})
NewAccount ==
  [password |-> CandidatePassword, isActive |-> TRUE, loginAttempts |-> 0,
   lockUntil |-> NoDate, lastLogin |-> NoDate]

(***************************************************************************)
(* controllers/candidateController.js: loginCandidate                      *)
(***************************************************************************)
LoginResponse(status, message, token) ==
  [status |-> status, message |-> message, token |-> token]

\* generateToken({id, tenant, type: 'candidate'}), and no token.
CandidateToken == [id |-> "c1", tenant |-> "T1", type |-> "candidate"]
NoToken == [id |-> Undefined, tenant |-> Undefined, type |-> Undefined]

Rejected(acc, status, message) ==
  [account |-> acc, res |-> LoginResponse(status, message, NoToken)]

\* loginCandidate that never counts a failed attempt.
LoginCandidateNoCount(acc, t, email, password) ==
  IF email = Undefined \/ password = Undefined
    THEN Rejected(acc, 400, "Please provide email and password")
  ELSE IF email # CandidateEmail
    THEN Rejected(acc, 401, "Invalid credentials")
  ELSE IF IsLocked(acc, t)
    THEN Rejected(acc, 423, "Account is temporarily locked")
  ELSE IF ~acc.isActive
    THEN Rejected(acc, 401, "Account is deactivated")
  ELSE IF ~MatchPassword(acc, password)
    THEN Rejected(acc, 401, "Invalid credentials")
  ELSE LET reset == IF acc.loginAttempts > 0 THEN ResetLoginAttempts(acc) ELSE acc
       IN  [account |-> [reset EXCEPT !.lastLogin = t],
            res |-> LoginResponse(200, "Login successful", CandidateToken)]

\* loginCandidate that compares the password before it looks at the lock and
\* the active flag.
LoginCandidatePasswordFirst(acc, t, email, password) ==
  IF email = Undefined \/ password = Undefined
    THEN Rejected(acc, 400, "Please provide email and password")
  ELSE IF email # CandidateEmail
    THEN Rejected(acc, 401, "Invalid credentials")
  ELSE IF ~MatchPassword(acc, password)
    THEN Rejected(IncLoginAttempts(acc, t), 401, "Invalid credentials")
  ELSE IF IsLocked(acc, t)
    THEN Rejected(acc, 423, "Account is temporarily locked")
  ELSE IF ~acc.isActive
    THEN Rejected(acc, 401, "Account is deactivated")
  ELSE LET reset == IF acc.loginAttempts > 0 THEN ResetLoginAttempts(acc) ELSE acc
       IN  [account |-> [reset EXCEPT !.lastLogin = t],
            res |-> LoginResponse(200, "Login successful", CandidateToken)]

\* loginCandidate without the lock check.
LoginCandidateNoLock(acc, t, email, password) ==
  IF email = Undefined \/ password = Undefined
    THEN Rejected(acc, 400, "Please provide email and password")
  ELSE IF email # CandidateEmail
    THEN Rejected(acc, 401, "Invalid credentials")
  ELSE IF ~acc.isActive
    THEN Rejected(acc, 401, "Account is deactivated")
  ELSE IF ~MatchPassword(acc, password)
    THEN Rejected(IncLoginAttempts(acc, t), 401, "Invalid credentials")
  ELSE LET reset == IF acc.loginAttempts > 0 THEN ResetLoginAttempts(acc) ELSE acc
       IN  [account |-> [reset EXCEPT !.lastLogin = t],
            res |-> LoginResponse(200, "Login successful", CandidateToken)]

\* The handler on the account it finds: the account it leaves and its
\* response. Candidate.findOne finds the candidate by email.
LoginCandidate(acc, t, email, password) ==
  IF email = Undefined \/ password = Undefined
    THEN Rejected(acc, 400, "Please provide email and password")
  ELSE IF email # CandidateEmail
    THEN Rejected(acc, 401, "Invalid credentials")
  ELSE IF IsLocked(acc, t)
    THEN Rejected(acc, 423, "Account is temporarily locked")
  ELSE IF ~acc.isActive
    THEN Rejected(acc, 401, "Account is deactivated")
  ELSE IF ~MatchPassword(acc, password)
    THEN Rejected(IncLoginAttempts(acc, t), 401, "Invalid credentials")
  ELSE LET reset == IF acc.loginAttempts > 0 THEN ResetLoginAttempts(acc) ELSE acc
       IN  [account |-> [reset EXCEPT !.lastLogin = t],
            res |-> LoginResponse(200, "Login successful", CandidateToken)]

loginCandidate(email, password) ==
  LET out == LoginCandidate(account, now, email, password)
  IN  /\ account' = out.account
      /\ loginRes' = out.res
      /\ UNCHANGED now
      /\ UNCHANGED notLogin

\* updateCandidateProfile with a body that sets account.isActive. The route
\* is behind protect: the caller holds a token loginCandidate issued, and
\* protect lets only an active account through.
updateCandidateProfile(isActive) ==
  /\ account.lastLogin # NoDate
  /\ account.isActive
  /\ account' = [account EXCEPT !.isActive = isActive]
  /\ UNCHANGED <<now, loginRes>>
  /\ UNCHANGED notLogin

\* Time passes.
Tick ==
  /\ now < MaxTime
  /\ now' = now + 1
  /\ UNCHANGED <<account, loginRes>>
  /\ UNCHANGED notLogin

(***************************************************************************)
(* middleware/auth.js: protect                                             *)
(***************************************************************************)
\* The tenant databases dbManager knows, and the keys a client can send.
Tenants == {"T1", "T2"}
TenantKeys == Tenants \cup {"T9"}
MasterDB == "master"

\* dbManager.getTenantDB(key): the handle of tenant key's database.
TenantDB(key) == "db_" \o key

\* The identity documents: _id, the database and the collection (model)
\* each lives in.
Ids == {"sa1", "u1", "c1", "c2"}
Home(id) ==
  CASE id = "sa1" -> [db |-> MasterDB, model |-> "SuperAdmin"]
    [] id = "u1" -> [db |-> TenantDB("T1"), model |-> "User"]
    [] id = "c1" -> [db |-> TenantDB("T1"), model |-> "Candidate"]
    [] id = "c2" -> [db |-> TenantDB("T2"), model |-> "Candidate"]

\* A staff or super-admin document carries a top-level isActive; a candidate
\* document carries account.isActive and no top-level flag.
Identity(id, active) ==
  IF Home(id).model = "Candidate"
    THEN [id |-> id, hasIsActive |-> FALSE, isActive |-> FALSE,
          hasAccount |-> TRUE, accountIsActive |-> active]
    ELSE [id |-> id, hasIsActive |-> TRUE, isActive |-> active,
          hasAccount |-> FALSE, accountIsActive |-> FALSE]

\* No document (findById's null) and no value attached.
NoUser ==
  [id |-> Undefined, hasIsActive |-> FALSE, isActive |-> FALSE,
   hasAccount |-> FALSE, accountIsActive |-> FALSE]

\* The claims jwt.verify decodes. A candidate token is the one loginCandidate
\* signs, {id, tenant, type: 'candidate'}, which carries no role; the tokens
\* of staff and super admins carry a role and may carry a tenant.
CandidateClaims ==
  [id : Ids \cup {"gone"}, role : {Undefined}, type : {"candidate"},
   tenant : Tenants \cup {Undefined}]
StaffClaims ==
  [id : Ids \cup {"gone"}, role : {"super_admin", "admin", Undefined},
   type : {"user", Undefined}, tenant : Tenants \cup {Undefined}]
Claims == CandidateClaims \cup StaffClaims
NoClaims == [id |-> Undefined, role |-> Undefined, type |-> Undefined,
             tenant |-> Undefined]

\* req.headers.authorization: absent, a bearer token that does not verify,
\* or a token that verifies to its claims.
Authorizations ==
  {[present |-> FALSE, verifies |-> FALSE, claims |-> NoClaims],
   [present |-> TRUE, verifies |-> FALSE, claims |-> NoClaims]}
  \cup [present : {TRUE}, verifies : {TRUE}, claims : Claims]

\* req.headers['x-tenant-id']
TenantHeaders == TenantKeys \cup {Undefined}

\* The request as it reaches protect.
Request(authorization, xTenantId) ==
  [authorization |-> authorization, xTenantId |-> xTenantId,
   db |-> Undefined, tenantId |-> Undefined, Model |-> Undefined,
   user |-> NoUser, userType |-> Undefined, status |-> 0, message |-> "",
   next |-> FALSE]

Respond(r, status, message) == [r EXCEPT !.status = status, !.message = message]

\* The tenant key with the header taking precedence over the claim.
TenantOfHeaderFirst(decoded, xTenantId) ==
  IF xTenantId # Undefined THEN xTenantId ELSE decoded.tenant

\* The tenant key without the fallback to the header.
TenantOfClaimOnly(decoded, xTenantId) == decoded.tenant

\* decoded.tenant || req.headers['x-tenant-id']
TenantOf(decoded, xTenantId) ==
  IF decoded.tenant # Undefined THEN decoded.tenant ELSE xTenantId

\* Model.findById(decoded.id) on the connection r.db.
FindById(ids, r, id) ==
  IF id \in Ids /\ Home(id) = [db |-> r.db, model |-> r.Model]
    THEN ids[id] ELSE NoUser

\* The active check looking at the top-level flag alone: user.isActive is
\* there and false.
InactiveTopLevelOnly(user) == user.hasIsActive /\ ~user.isActive

\* !user.isActive && (!user.account || !user.account.isActive)
Inactive(user) ==
  /\ ~(user.hasIsActive /\ user.isActive)
  /\ ~user.hasAccount \/ ~user.accountIsActive

\* From the model lookup on: the identity load and the active check.
LoadIdentity(ids, r, decoded) ==
  LET user == FindById(ids, r, decoded.id)
  IN  IF user = NoUser THEN Respond(r, 401, "User not found")
      ELSE IF Inactive(user) THEN Respond(r, 401, "Account is inactive")
      ELSE [r EXCEPT !.user = user, !.userType = decoded.type, !.next = TRUE]

\* protect on a request: the request as it leaves it. An exception (a token
\* that does not verify, a tenant key dbManager does not know) ends in the
\* catch block.
Protect(ids, r) ==
  LET decoded == r.authorization.claims
  IN  IF ~r.authorization.present THEN Respond(r, 401, "Token missing")
      ELSE IF ~r.authorization.verifies THEN Respond(r, 401, "Authentication failed")
      ELSE IF decoded.role = "super_admin"
        THEN LoadIdentity(ids, [r EXCEPT !.db = MasterDB, !.Model = "SuperAdmin"], decoded)
      ELSE LET tenant == TenantOf(decoded, r.xTenantId)
           IN  IF tenant = Undefined
                 THEN Respond(r, 400, "Tenant is required for this user type")
               ELSE IF tenant \notin Tenants
                 THEN Respond(r, 401, "Authentication failed")
               ELSE LoadIdentity(ids,
                      [r EXCEPT !.db = TenantDB(tenant), !.tenantId = tenant,
                                !.Model = IF decoded.type = "candidate"
                                            THEN "Candidate" ELSE "User"],
                      decoded)

protect(authorization, xTenantId) ==
  /\ req' = Protect(identities, Request(authorization, xTenantId))
  /\ UNCHANGED identities
  /\ UNCHANGED notProtect

\* An identity is deactivated or reactivated: the flag of its kind is set.
setActive(id, active) ==
  /\ identities' = [identities EXCEPT ![id] = Identity(id, active)]
  /\ UNCHANGED req
  /\ UNCHANGED notProtect

(***************************************************************************)
(* utils/cloudinary.js and controllers/candidateController.js:             *)
(* upload.single('resume') followed by uploadDocument                      *)
(***************************************************************************)
\* An unset publicId; artifacts are named 1, 2, ...
NoArtifact == 0

\* validDocumentTypes, and the documentType values a request sends.
ValidDocumentTypes == {"resume", "coverLetter", "certificate", "profilePicture"}
DocumentTypes == {"resume", "profilePicture", "selfie"}

\* req.user.id as protect attached it: the candidate, or a staff user, who
\* has no Candidate document.
UploadUsers == {"c1", "u1"}
CandidateIds == {"c1"}

\* Where a database call of the handler throws.
DbErrors == {"none", "findById", "findByIdAndUpdate"}

\* req.file as CloudinaryStorage hands it over: path, size and filename
\* (the artifact's public id). It sets no public_id property.
CloudinaryFile(publicId) ==
  [present |-> TRUE, filename |-> publicId, has_public_id |-> FALSE,
   public_id |-> NoArtifact]
NoFile ==
  [present |-> FALSE, filename |-> NoArtifact, has_public_id |-> FALSE,
   public_id |-> NoArtifact]

\* cloudinary.uploader.destroy(publicId)
Destroy(store, publicId) == store \ {publicId}

\* if (req.file.public_id) await cloudinary.uploader.destroy(req.file.public_id)
DestroyUploaded(store, file) ==
  IF file.present /\ file.has_public_id THEN Destroy(store, file.public_id) ELSE store

UploadResponse(status, message, file) ==
  [status |-> status, message |-> message, file |-> file]

\* The catch block.
UploadCatch(store, docs, file) ==
  [storage |-> DestroyUploaded(store, file), documents |-> docs,
   res |-> UploadResponse(500, "Error uploading document", file)]

\* uploadDocument on the request upload.single left: the media store and
\* the candidate's documents it leaves, and its response. Reading
\* candidate.documents of a null candidate throws.
UploadDocument(store, docs, user, file, documentType, dbError) ==
  IF ~file.present
    THEN [storage |-> store, documents |-> docs,
          res |-> UploadResponse(400, "Please upload a file", file)]
  ELSE IF documentType \notin ValidDocumentTypes
    THEN [storage |-> DestroyUploaded(store, file), documents |-> docs,
          res |-> UploadResponse(400, "Invalid document type", file)]
  ELSE IF dbError = "findById" \/ user \notin CandidateIds
    THEN UploadCatch(store, docs, file)
  ELSE LET old == docs[documentType]
           cleaned == IF old # NoArtifact THEN Destroy(store, old) ELSE store
       IN  IF dbError = "findByIdAndUpdate"
             THEN UploadCatch(cleaned, docs, file)
             ELSE [storage |-> cleaned,
                   documents |-> [docs EXCEPT ![documentType] = file.filename],
                   res |-> UploadResponse(200, "Document uploaded successfully", file)]

\* POST /upload-document: upload.single stores the file under a fresh public
\* id, then the handler runs.
uploadDocument(user, hasFile, documentType, dbError) ==
  /\ uploads < MaxUploads
  /\ LET publicId == uploads + 1
         file == IF hasFile THEN CloudinaryFile(publicId) ELSE NoFile
         stored == IF hasFile THEN storage \cup {publicId} ELSE storage
         out == UploadDocument(stored, documents, user, file, documentType, dbError)
     IN  /\ storage' = out.storage
         /\ documents' = out.documents
         /\ uploadRes' = out.res
         /\ uploads' = IF hasFile THEN publicId ELSE uploads
  /\ UNCHANGED notUpload

(***************************************************************************)
(* controllers/candidateController.js: applyToJob                          *)
(*                                                                         *)
(* The handler is a chain of awaited calls; ApplyStep takes a call from    *)
(* one await to the next over the world (jobs, candidates, applications),  *)
(* and ApplyRun runs a call to its response.                               *)
(***************************************************************************)
JobIds == {"J1", "J2"}
\* req.params.jobId: a job's _id, or one that names no job.
RequestedJobs == JobIds \cup {"J0"}
\* candidateData.personalInfo.email
ApplyEmails == {"a@x.com", "b@x.com"}

\* A JobDescription document: what applyToJob reads of it, and the counter
\* incrementApplications raises.
Job(isActive, status, isDeadlinePassed, allowMultipleApplications) ==
  [isActive |-> isActive, status |-> status,
   isDeadlinePassed |-> isDeadlinePassed,
   allowMultipleApplications |-> allowMultipleApplications,
   applications |-> 0]

\* job.incrementApplications()
IncrementApplications(js, jobId) ==
  [js EXCEPT ![jobId].applications = @ + 1]

\* Application.findOne({jobDescriptionId, candidateId}) finds a document.
HasApplied(apps, jobId, candidateId) ==
  \E k \in 1..Len(apps) :
    apps[k].jobDescriptionId = jobId /\ apps[k].candidateId = candidateId

\* A call as it enters the handler. emailSends: whether sendEmail resolves.
\* application: the document Application.create returned to the call, as
\* its place in the collection, 0 while the call has none.
NewCall(jobId, email, emailSends) ==
  [pc |-> "findJob", jobId |-> jobId, email |-> email,
   emailSends |-> emailSends, candidateId |-> Undefined, application |-> 0,
   status |-> 0, message |-> ""]

World(js, cs, apps) == [jobs |-> js, candidates |-> cs, applications |-> apps]

Step(w, c) == [world |-> w, call |-> c]
Goto(c, pc) == [c EXCEPT !.pc = pc]
ApplyRespond(c, status, message) ==
  [c EXCEPT !.pc = "done", !.status = status, !.message = message]
ApplyCatch(c) == ApplyRespond(c, 500, "Error submitting application")

\* JobDescription.findOne({..., isActive: true, status: 'published'}) and
\* the deadline check.
FindJob(w, c) ==
  IF \/ c.jobId \notin JobIds
     \/ ~w.jobs[c.jobId].isActive
     \/ w.jobs[c.jobId].status # "published"
    THEN Step(w, ApplyRespond(c, 404, "Job not found or no longer available"))
  ELSE IF w.jobs[c.jobId].isDeadlinePassed
    THEN Step(w, ApplyRespond(c, 410, "Application deadline has passed"))
  ELSE Step(w, Goto(c, "findCandidate"))

\* Candidate.findOne({'personalInfo.email': ...})
FindCandidate(w, c) ==
  IF c.email \in w.candidates
    THEN Step(w, Goto([c EXCEPT !.candidateId = c.email], "findExisting"))
    ELSE Step(w, Goto(c, "createCandidate"))

\* Candidate.create: the email is unique in the tenant's collection.
CreateCandidate(w, c) ==
  IF c.email \in w.candidates
    THEN Step(w, ApplyCatch(c))
    ELSE Step([w EXCEPT !.candidates = @ \cup {c.email}],
              Goto([c EXCEPT !.candidateId = c.email], "findExisting"))

\* The duplicate check left out.
FindExistingNoGuard(w, c) == Step(w, Goto(c, "createApplication"))

\* Application.findOne for the pair and the duplicate check.
FindExisting(w, c) ==
  IF /\ HasApplied(w.applications, c.jobId, c.candidateId)
     /\ ~w.jobs[c.jobId].allowMultipleApplications
    THEN Step(w, ApplyRespond(c, 400, "You have already applied for this position"))
    ELSE Step(w, Goto(c, "createApplication"))

\* Application.create: the unique index on {jobDescriptionId, candidateId}
\* rejects a second document for the pair.
CreateApplication(w, c) ==
  IF HasApplied(w.applications, c.jobId, c.candidateId)
    THEN Step(w, ApplyCatch(c))
    ELSE Step([w EXCEPT !.applications =
                 Append(@, [jobDescriptionId |-> c.jobId,
                            candidateId |-> c.candidateId,
                            status |-> NewApplication.status])],
              Goto([c EXCEPT !.application = Len(w.applications) + 1],
                   "incrementApplications"))

IncrementStep(w, c) ==
  Step([w EXCEPT !.jobs = IncrementApplications(@, c.jobId)], Goto(c, "sendEmail"))

\* await sendEmail(...), then the 201 response.
SendEmail(w, c) ==
  IF c.emailSends
    THEN Step(w, ApplyRespond(c, 201, "Application submitted successfully"))
    ELSE Step(w, ApplyCatch(c))

ApplyStep(w, c) ==
  CASE c.pc = "findJob" -> FindJob(w, c)
    [] c.pc = "findCandidate" -> FindCandidate(w, c)
    [] c.pc = "createCandidate" -> CreateCandidate(w, c)
    [] c.pc = "findExisting" -> FindExisting(w, c)
    [] c.pc = "createApplication" -> CreateApplication(w, c)
    [] c.pc = "incrementApplications" -> IncrementStep(w, c)
    [] c.pc = "sendEmail" -> SendEmail(w, c)

RECURSIVE ApplyRun(_, _)
ApplyRun(w, c) ==
  IF c.pc = "done" THEN Step(w, c)
  ELSE LET next == ApplyStep(w, c) IN ApplyRun(next.world, next.call)

\* One request, from its first line to its response.
applyToJob(jobId, email, emailSends) ==
  LET out == ApplyRun(World(jobs, candidates, applications),
                      NewCall(jobId, email, emailSends))
  IN  /\ jobs' = out.world.jobs
      /\ candidates' = out.world.candidates
      /\ applications' = out.world.applications
      /\ applyRes' = out.call
      /\ UNCHANGED calls
      /\ UNCHANGED notApply

\* The requests Node serves together: each runs from one await to the next
\* and the event loop interleaves them at the awaits.
Slots == {1, 2}

\* The call in a slot runs to its next await, or to its response.
applyStep(slot) ==
  /\ calls[slot].pc # "done"
  /\ LET out == ApplyStep(World(jobs, candidates, applications), calls[slot])
     IN  /\ jobs' = out.world.jobs
         /\ candidates' = out.world.candidates
         /\ applications' = out.world.applications
         /\ calls' = [calls EXCEPT ![slot] = out.call]
  /\ UNCHANGED applyRes
  /\ UNCHANGED notApply

\* The application deadline of a job passes.
deadlinePasses(jobId) ==
  /\ ~jobs[jobId].isDeadlinePassed
  /\ jobs' = [jobs EXCEPT ![jobId].isDeadlinePassed = TRUE]
  /\ UNCHANGED <<candidates, applications, applyRes, calls>>
  /\ UNCHANGED notApply

(***************************************************************************)
(* Specifications.                                                         *)
(***************************************************************************)
InitLifecycle ==
  /\ app = PreSave(NewApplication, NewApplication, TRUE)

InitLogin ==
  /\ account = NewAccount
  /\ now = 1
  /\ loginRes = LoginResponse(0, "", NoToken)

InitProtect ==
  /\ identities = [id \in Ids |-> Identity(id, TRUE)]
  /\ req = Request([present |-> FALSE, verifies |-> FALSE, claims |-> NoClaims],
                   Undefined)

InitUpload ==
  /\ storage = {}
  /\ documents = [t \in ValidDocumentTypes |-> NoArtifact]
  /\ uploads = 0
  /\ uploadRes = [status |-> 0, message |-> "", file |-> NoFile]

\* No job has applications yet; both jobs are open. InitApply draws the
\* settings of J1 instead.
InitJobs ==
  /\ candidates = {}
  /\ applications = <<>>
  /\ applyRes = NewCall("J0", "a@x.com", TRUE)
  /\ calls = [slot \in Slots |->
               ApplyRespond(NewCall("J0", "a@x.com", TRUE), 0, "")]

InitApplyIdle ==
  /\ InitJobs
  /\ jobs = [j \in JobIds |-> Job(TRUE, "published", FALSE, TRUE)]

InitApplyJobs ==
  /\ InitJobs
  /\ \E isActive \in BOOLEAN, status \in {"published", "draft"},
        allowMultipleApplications \in BOOLEAN :
       jobs = [j \in JobIds |->
                 IF j = "J1"
                   THEN Job(isActive, status, FALSE, allowMultipleApplications)
                   ELSE Job(TRUE, "published", FALSE, TRUE)]

Init ==
  /\ InitLifecycle
  /\ InitLogin
  /\ InitProtect
  /\ InitUpload
  /\ InitApplyIdle

InitApply ==
  /\ InitLifecycle
  /\ InitLogin
  /\ InitProtect
  /\ InitUpload
  /\ InitApplyJobs

\* Two requests have arrived together and neither has run a line yet. J1
\* takes one application per candidate, J2 several; there is no application
\* yet, and the candidate a@x.com may or may not be known.
InitApplyCalls ==
  /\ jobs = [j \in JobIds |->
               Job(TRUE, "published", FALSE, j = "J2")]
  /\ candidates \in {{}, {"a@x.com"}}
  /\ applications = <<>>
  /\ applyRes = NewCall("J0", "a@x.com", TRUE)
  /\ calls \in [Slots -> {NewCall(j, e, ok) :
                            j \in RequestedJobs, e \in ApplyEmails,
                            ok \in BOOLEAN}]

InitApplyConcurrent ==
  /\ InitLifecycle
  /\ InitLogin
  /\ InitProtect
  /\ InitUpload
  /\ InitApplyCalls

NextLifecycle ==
  \/ \E s \in Statuses : updateStatus(s)
  \/ \E i \in InterviewSlots : scheduleInterview(i)
  \/ \E c \in CommunicationTypes : addCommunication(c)
  \/ \E s \in Statuses : saveStatus(s)

NextLogin ==
  \/ \E e \in LoginEmails, p \in LoginPasswords : loginCandidate(e, p)
  \/ \E b \in BOOLEAN : updateCandidateProfile(b)
  \/ Tick

NextProtect ==
  \/ \E a \in Authorizations, h \in TenantHeaders : protect(a, h)
  \/ \E id \in Ids, b \in BOOLEAN : setActive(id, b)

NextUpload ==
  \E user \in UploadUsers, hasFile \in BOOLEAN,
     documentType \in DocumentTypes, dbError \in DbErrors :
    uploadDocument(user, hasFile, documentType, dbError)

NextApply ==
  \/ \E j \in RequestedJobs, e \in ApplyEmails, ok \in BOOLEAN : applyToJob(j, e, ok)
  \/ \E j \in JobIds : deadlinePasses(j)

SpecLifecycle == Init /\ [][NextLifecycle]_vars
SpecLogin == Init /\ [][NextLogin]_vars
SpecProtect == Init /\ [][NextProtect]_vars
SpecUpload == Init /\ [][NextUpload]_vars
SpecApply == InitApply /\ [][NextApply]_vars

NextApplyConcurrent == \E slot \in Slots : applyStep(slot)

SpecApplyConcurrent == InitApplyConcurrent /\ [][NextApplyConcurrent]_vars

(***************************************************************************)
(* Application lifecycle: the claims.                                      *)
(***************************************************************************)
\* s is a prefix of t.
IsPrefix(s, t) == Len(s) <= Len(t) /\ SubSeq(t, 1, Len(s)) = s

\* The entries an operation appended.
Appended == (Len(app.timeline) + 1) .. Len(app'.timeline)

\* C3: one call of updateStatus (with its save and the pre-save hook) grows
\* the timeline by exactly one entry, whose previousStatus is the status
\* before the call and whose newStatus is the status after it, whatever
\* status is requested.
C3_UpdateStatusAppendsOne ==
  [][\A s \in Statuses :
       updateStatus(s) =>
         /\ Len(app'.timeline) = Len(app.timeline) + 1
         /\ app'.timeline[Len(app'.timeline)].previousStatus = app.status
         /\ app'.timeline[Len(app'.timeline)].newStatus = app'.status]_vars

\* C4: scheduleInterview sets the status to interview_scheduled exactly when
\* the status before the call is submitted or under_review and leaves every
\* other status as it is; in all cases it appends exactly one interview
\* sub-record and appends its timeline entry.
C4_ScheduleInterviewPromotion ==
  [][\A i \in InterviewSlots :
       scheduleInterview(i) =>
         /\ app'.status = IF app.status \in {"submitted", "under_review"}
                            THEN "interview_scheduled" ELSE app.status
         /\ app'.interviews = Append(app.interviews, i)
         /\ IsPrefix(app.timeline, app'.timeline)
         /\ app'.timeline[Len(app.timeline) + 1].action = "Interview scheduled for"]_vars

\* An interview was scheduled on an application whose status is interviewed:
\* the status stayed, the interview and its timeline entry are there.
C4_Witness ==
  /\ app.status = "interviewed"
  /\ Len(app.interviews) = 1
  /\ app.timeline[Len(app.timeline)].action = "Interview scheduled for"

\* C9: the timeline is append-only (the timeline before an operation is a
\* prefix of the timeline after it), and every change of the status comes
\* with an appended entry that records the previous and the new status.
C9_TimelineAppendOnlyAndComplete ==
  [][/\ IsPrefix(app.timeline, app'.timeline)
     /\ app'.status # app.status =>
          \E k \in Appended :
            /\ app'.timeline[k].previousStatus = app.status
            /\ app'.timeline[k].newStatus = app'.status]_vars

(***************************************************************************)
(* loginCandidate: the claims.                                             *)
(***************************************************************************)
\* A login request that finds the candidate: both fields given, the email
\* registered.
FindsCandidate(email, password) ==
  email = CandidateEmail /\ password # Undefined

\* C6: a loginCandidate call that fails the password match increments
\* loginAttempts by one, a call that passes it leaves loginAttempts at 0 and
\* records lastLogin, and loginAttempts decreases only in a successful login.
C6_LoginAttemptsCounting ==
  [][\A e \in LoginEmails, p \in LoginPasswords :
       loginCandidate(e, p) =>
         LET compared == /\ FindsCandidate(e, p)
                         /\ ~IsLocked(account, now)
                         /\ account.isActive
         IN  /\ compared /\ ~MatchPassword(account, p) =>
                  account'.loginAttempts = account.loginAttempts + 1
             /\ compared /\ MatchPassword(account, p) =>
                  /\ account'.loginAttempts = 0
                  /\ account'.lastLogin = now
             /\ account'.loginAttempts < account.loginAttempts =>
                  /\ compared /\ MatchPassword(account, p)
                  /\ loginRes'.status = 200]_vars

\* A successful login on an account that had been locked (so had failed
\* attempts counted): the counter is back at 0 and lastLogin is now.
C6_Witness ==
  /\ loginRes.status = 200
  /\ account.lockUntil # NoDate
  /\ account.loginAttempts = 0
  /\ account.lastLogin = now

\* C7 as stated: a locked candidate is rejected with 423 and an inactive
\* candidate with 401, whatever the password, and the rejected request
\* changes neither loginAttempts nor lastLogin and issues no token.
C7_LockedInactiveRejected ==
  [][\A e \in LoginEmails, p \in LoginPasswords :
       loginCandidate(e, p) /\ FindsCandidate(e, p) =>
         /\ IsLocked(account, now) => loginRes'.status = 423
         /\ ~account.isActive => loginRes'.status = 401
         /\ IsLocked(account, now) \/ ~account.isActive =>
              /\ account' = account
              /\ loginRes'.token = NoToken]_vars

\* C7, amended: a locked candidate is rejected with 423, and an inactive
\* candidate that is not locked with 401, whatever the password; the
\* rejected request changes neither loginAttempts nor lastLogin and issues
\* no token.
C7_LockedThenInactiveRejected ==
  [][\A e \in LoginEmails, p \in LoginPasswords :
       loginCandidate(e, p) /\ FindsCandidate(e, p) =>
         /\ IsLocked(account, now) => loginRes'.status = 423
         /\ ~IsLocked(account, now) /\ ~account.isActive => loginRes'.status = 401
         /\ IsLocked(account, now) \/ ~account.isActive =>
              /\ account' = account
              /\ loginRes'.token = NoToken]_vars

\* A deactivated account that has failed attempts on it and is not locked
\* (any more) has been turned away as deactivated.
C7_Witness ==
  /\ loginRes.status = 401
  /\ loginRes.message = "Account is deactivated"
  /\ ~account.isActive
  /\ account.loginAttempts > 0
  /\ ~IsLocked(account, now)

\* C8: with a lock threshold of 5, a wrong password on an unlocked active
\* account responds 401, the 5th counted failure included, and locks the
\* account exactly when the count reaches the threshold; a call on a locked
\* account responds 423 whether its password is right or wrong. An account
\* with fewer than 5 counted failures is not locked.
C8_LockAfterFiveFailures ==
  /\ [](account.loginAttempts < MaxAttempts => ~IsLocked(account, now))
  /\ [][\A e \in LoginEmails, p \in LoginPasswords :
          loginCandidate(e, p) /\ FindsCandidate(e, p) =>
            /\ IsLocked(account, now) => loginRes'.status = 423
            /\ ~IsLocked(account, now) /\ account.isActive /\ ~MatchPassword(account, p) =>
                 /\ loginRes'.status = 401
                 /\ loginRes'.message = "Invalid credentials"
                 /\ IsLocked(account', now') <=>
                      account.loginAttempts + 1 >= MaxAttempts]_vars

\* The call after the 5th consecutive failure: the account is locked with
\* exactly 5 counted failures and the call was answered 423.
C8_Witness ==
  /\ loginRes.status = 423
  /\ account.loginAttempts = MaxAttempts
  /\ account.lastLogin = NoDate
  /\ IsLocked(account, now)

(***************************************************************************)
(* protect: the claims.                                                    *)
(***************************************************************************)
\* The claims of the token of the request protect handled, when it verified.
Decoded == req.authorization.claims
Verified == req.authorization.present /\ req.authorization.verifies

\* C5: a token whose role is super_admin binds the request to the master
\* database and the super-admin model whatever tenant claim or x-tenant-id
\* header it comes with; a token of type candidate with tenant key T binds
\* it to tenant T's database and the Candidate model.
C5_TenantResolution ==
  /\ Verified /\ Decoded.role = "super_admin" =>
       /\ req.db = MasterDB
       /\ req.Model = "SuperAdmin"
       /\ req.tenantId = Undefined
  /\ Verified /\ Decoded.type = "candidate" /\ Decoded.tenant # Undefined =>
       /\ req.db = TenantDB(Decoded.tenant)
       /\ req.tenantId = Decoded.tenant
       /\ req.Model = "Candidate"

\* A candidate token of tenant T1 came with the header of tenant T2 and was
\* let through as the candidate of T1's Candidate collection.
C5_Witness ==
  /\ Verified
  /\ Decoded.type = "candidate" /\ Decoded.tenant = "T1"
  /\ req.xTenantId = "T2"
  /\ req.db = TenantDB("T1") /\ req.Model = "Candidate"
  /\ req.next /\ req.user.id = "c1"

(***************************************************************************)
(* uploadDocument: the claims.                                             *)
(***************************************************************************)
\* C10: whenever a file has been uploaded and the request ends in a failure
\* response (invalid documentType, candidate not found, unexpected error),
\* the uploaded artifact is no longer in the media store when the response
\* is sent.
C10_NoOrphanedArtifact ==
  uploadRes.file.present /\ uploadRes.status \in {400, 404, 500} =>
    uploadRes.file.filename \notin storage

(***************************************************************************)
(* applyToJob: the claims.                                                 *)
(***************************************************************************)
\* The job is found (active and published) and its deadline has not passed.
JobOpen(jobId) ==
  /\ jobId \in JobIds
  /\ jobs[jobId].isActive
  /\ jobs[jobId].status = "published"
  /\ ~jobs[jobId].isDeadlinePassed

\* C1: an applyToJob request for an open job by a candidate with no
\* Application for it creates exactly one Application with status submitted,
\* raises the job's application counter by exactly 1 and responds 201.
C1_ApplyCreatesOne ==
  [][\A j \in RequestedJobs, e \in ApplyEmails, ok \in BOOLEAN :
       applyToJob(j, e, ok) /\ JobOpen(j) /\ ~HasApplied(applications, j, e) =>
         /\ applications' = Append(applications,
                                   [jobDescriptionId |-> j, candidateId |-> e,
                                    status |-> "submitted"])
         /\ jobs'[j].applications = jobs[j].applications + 1
         /\ applyRes'.status = 201]_vars

\* C2: when the job does not allow multiple applications and an Application
\* exists for the (job, candidate) pair, a further applyToJob for the open
\* job with the same email is rejected with 400 and leaves the Application
\* records and the job's application counter unchanged.
C2_DuplicateRejected ==
  [][\A j \in RequestedJobs, e \in ApplyEmails, ok \in BOOLEAN :
       /\ applyToJob(j, e, ok)
       /\ JobOpen(j)
       /\ ~jobs[j].allowMultipleApplications
       /\ HasApplied(applications, j, e)
       => /\ applyRes'.status = 400
          /\ applications' = applications
          /\ jobs' = jobs
          /\ candidates' = candidates]_vars

\* The repeated call was answered 400 with the one Application of the pair
\* and a counter of 1 in place.
C2_Witness ==
  /\ applyRes.status = 400
  /\ applyRes.jobId = "J1"
  /\ ~jobs["J1"].allowMultipleApplications
  /\ jobs["J1"].applications = 1
  /\ Cardinality({k \in 1..Len(applications) :
                    /\ applications[k].jobDescriptionId = "J1"
                    /\ applications[k].candidateId = applyRes.email}) = 1

\* C11: applyToJob gives no partial-success outcome: a request answered with
\* a failure status (400, 404, 410, 500) leaves no new Candidate, no new
\* Application and no counter increment behind, and a request answered 201
\* has its Application and its counter increment committed.
C11_NoPartialSuccess ==
  [][\A j \in RequestedJobs, e \in ApplyEmails, ok \in BOOLEAN :
       applyToJob(j, e, ok) =>
         /\ applyRes'.status \in {400, 404, 410, 500} =>
              /\ candidates' = candidates
              /\ applications' = applications
              /\ jobs' = jobs
         /\ applyRes'.status = 201 =>
              /\ e \in candidates'
              /\ Len(applications') = Len(applications) + 1
              /\ jobs'[j].applications = jobs[j].applications + 1]_vars

\* C13: when the job allows multiple applications, applyToJob by a candidate
\* who already has an Application for the open job is not turned away as a
\* duplicate and creates a further Application for the same pair.
C13_MultipleApplicationsAllowed ==
  [][\A j \in RequestedJobs, e \in ApplyEmails, ok \in BOOLEAN :
       /\ applyToJob(j, e, ok)
       /\ JobOpen(j)
       /\ jobs[j].allowMultipleApplications
       /\ HasApplied(applications, j, e)
       => /\ applyRes'.status # 400
          /\ applications' = Append(applications,
                                    [jobDescriptionId |-> j, candidateId |-> e,
                                     status |-> "submitted"])]_vars

(***************************************************************************)
(* protect: the identity guard and the tenant key.                         *)
(***************************************************************************)
\* The flag that applies to an identity's type: account.isActive for a
\* candidate, the top-level isActive for staff and super admins.
ActiveByType(doc) ==
  IF Home(doc.id).model = "Candidate" THEN doc.accountIsActive ELSE doc.isActive

\* The identity of the token is a document of the model protect resolved.
FoundIn(r, id) ==
  id \in Ids /\ Home(id) = [db |-> r.db, model |-> r.Model]

\* C12: protect calls next, with req.user attached, only if the token
\* verifies, the identity is found in the resolved model and it is active
\* under the flag of its type (and then it does); a token that does not
\* verify, a missing identity and an inactive identity each get 401 and the
\* handler is not invoked.
C12_IdentityGuard ==
  [][protect(req'.authorization, req'.xTenantId) =>
         LET a == req'.authorization
             id == a.claims.id
             verified == a.present /\ a.verifies
             found == verified /\ FoundIn(req', id)
         IN  /\ req'.next <=> found /\ ActiveByType(identities[id])
             /\ req'.next => req'.user = identities[id] /\ req'.status = 0
             /\ ~verified => req'.status = 401 /\ req'.user = NoUser
             /\ verified /\ req'.Model # Undefined /\ ~found =>
                  req'.status = 401 /\ req'.user = NoUser
             /\ found /\ ~ActiveByType(identities[id]) =>
                  req'.status = 401 /\ req'.user = NoUser]_vars

\* A deactivated candidate came with a verifying token of its tenant and was
\* turned away.
C12_Witness ==
  /\ Verified
  /\ Decoded.type = "candidate" /\ Decoded.id = "c1"
  /\ req.Model = "Candidate" /\ req.db = TenantDB("T1")
  /\ ~identities["c1"].accountIsActive
  /\ req.status = 401 /\ req.message = "Account is inactive"
  /\ ~req.next

\* C14: for a token that is not super_admin the tenant key is the token's
\* tenant claim, and the x-tenant-id header only when the claim is absent:
\* with the claim present the outcome is the same under every header; with
\* both absent the request fails before a tenant database is resolved, an
\* identity is loaded or the handler is invoked.
C14_TenantKeyPrecedence ==
  Verified /\ Decoded.role # "super_admin" =>
    LET tenant == Decoded.tenant
        h == req.xTenantId
    IN  /\ tenant # Undefined =>
             /\ req.tenantId = tenant /\ req.db = TenantDB(tenant)
             /\ \A other \in TenantHeaders :
                  LET r == Protect(identities, Request(req.authorization, other))
                  IN  /\ r.tenantId = req.tenantId /\ r.db = req.db
                      /\ r.Model = req.Model
        /\ tenant = Undefined /\ h \in Tenants =>
             req.tenantId = h /\ req.db = TenantDB(h)
        /\ tenant = Undefined /\ h = Undefined =>
             /\ req.status = 400
             /\ req.db = Undefined /\ req.tenantId = Undefined
             /\ req.Model = Undefined /\ req.user = NoUser
             /\ ~req.next

\* A verifying staff token without a tenant claim came without the header
\* and was refused with nothing resolved.
C14_Witness ==
  /\ Verified
  /\ Decoded.role = "admin" /\ Decoded.tenant = Undefined
  /\ req.xTenantId = Undefined
  /\ req.status = 400
  /\ req.db = Undefined /\ ~req.next

\* The Applications of a job and candidate pair.
ApplicationsOf(jobId, candidateId) ==
  {k \in 1..Len(applications) :
     /\ applications[k].jobDescriptionId = jobId
     /\ applications[k].candidateId = candidateId}

\* C15: when two applyToJob requests for the same job, which takes one
\* application per candidate, and the same candidate email run together
\* with no prior application, then after both have responded there is at
\* most one Application for the pair, the job's counter has risen by the
\* number of Applications created, and a request that created none got the
\* 400 duplicate rejection.
C15_ConcurrentApplyOnce ==
  /\ \A slot \in Slots : calls[slot].pc = "done" /\ calls[slot].status # 0
  /\ calls[1].jobId = calls[2].jobId
  /\ calls[1].email = calls[2].email
  /\ calls[1].jobId \in JobIds
  /\ JobOpen(calls[1].jobId)
  /\ ~jobs[calls[1].jobId].allowMultipleApplications
  => /\ Cardinality(ApplicationsOf(calls[1].jobId, calls[1].email)) <= 1
     /\ jobs[calls[1].jobId].applications =
          Cardinality({slot \in Slots : calls[slot].application # 0})
     /\ \A slot \in Slots :
          calls[slot].application = 0 =>
            /\ calls[slot].status = 400
            /\ calls[slot].message = "You have already applied for this position"

=============================================================================
